---------------------------- MODULE Spec2Model ----------------------------
(***************************************************************************)
(* Greenhouse controller (GEM-rs): the Preferences clock/threshold model   *)
(* and the cooperative main loop of src/src/main.rs, with the library      *)
(* revision of Preferences in src/src/preferences.rs.                      *)
(*                                                                         *)
(* A state of the main program is a point where the firmware sits in a     *)
(* delay_ms call; an action is the code executed between two delays.       *)
(* A panic (a failed unwrap, an overflow in a build with overflow checks)  *)
(* halts the firmware: pc = "panic" has no successor.                      *)
(***************************************************************************)
EXTENDS Integers, Sequences, FiniteSets, TLC

VARIABLES
    pc,                    \* where the firmware is blocked: "main", "temp", "hum", "date",
                           \* "water", "latch", "fault_on", "fault_off", "panic" ("harness"
                           \* in the specifications that drive one function)
    temperature,           \* Preferences.temperature : <<low, high>>
    humidity,              \* Preferences.humidity    : <<low, high>>
    date,                  \* Preferences.date : <<sec, min, hour, day, month, year>>
    watering,              \* Preferences.watering : <<>> (None) or <<smin, shour, emin, ehour>>
    current_screen_index,  \* 0 Temp, 1 Humidity, 2 Pressure, 3 Date, 4 Water schedule
    wait_time,             \* passes since the last Sensor action (u16)
    button_cooldown,       \* passes until a button action is accepted (u8)
    data,                  \* the stored FieldData
    buzzer,                \* output pins
    sprinklers,
    roof_vent,
    smoke_detector,        \* input pin level (environment)
    roof_open,             \* the vent state saved at latch entry
    editing_lower,         \* locals of the SELECT branch
    update_date,
    refresh,
    info_str,              \* String<11>, a sequence of characters
    index,                 \* the edit session's loop counter / field number
    last_action,           \* what should_update returned in the last pass ("IDLE": no update);
                           \* "LATCH" after an iteration of the smoke latch loop, "RELEASE"
                           \* after the step that left it
    sampled,               \* the button levels <<up, down, select>> the last step sampled
    overflow_checks,       \* build profile: TRUE = arithmetic overflow panics, FALSE = it wraps
    clock_runs,            \* FALSE only in SpecLive, which holds the clock value
    start,                 \* harness: the input the run started from
    returned,              \* harness: the value the function under study returned
    n                      \* number of tick_time calls (harness: of applications) so far

vars == << pc, temperature, humidity, date, watering, current_screen_index, wait_time,
           button_cooldown, data, buzzer, sprinklers, roof_vent, smoke_detector, roof_open,
           editing_lower, update_date, refresh, info_str, index, last_action, sampled,
           overflow_checks, clock_runs, start, returned, n >>

-----------------------------------------------------------------------------
(* Bounds of the model *)

MaxClockTicks == 3
MaxTicks == 3
MaxWait == 103
MaxNav == 5
MaxSamples == 7
MaxSteps == 2
MaxRangeSteps == 3
MaxTimerTicks == 5
MaxPasses == 201
MaxHeld == 40

-----------------------------------------------------------------------------
(* Preferences: construction *)

None == << >>

DefaultTemperature == << 60, 80 >>
DefaultHumidity == << 60, 70 >>
DefaultDate == << 0, 0, 0, 1, 1, 2000 >>
LibDefaultDate == << 0, 0, 0, 0, 0, 2000 >>

\* FieldData::default(): temperature in 1/100 degree Celsius, humidity in 1/1000 percent,
\* pressure in Pa, as the sensor driver stores them.
DefaultFieldData == [temperature |-> 0, humidity |-> 0, pressure |-> 0]

-----------------------------------------------------------------------------
(* Preferences: calendar *)

\* A leap rule without the 400-year exception.
is_leap_year_Mut(year) == year % 4 = 0 /\ year % 100 # 0

is_leap_year(year) == year % 4 = 0 /\ (year % 100 # 0 \/ year % 400 = 0)

get_days_in_month_Mut(d) ==
    CASE d[5] = 2 -> IF d[6] % 4 = 0 THEN 29 ELSE 28
      [] d[5] \in {4, 6, 9, 11} -> 30
      [] OTHER -> 31

get_days_in_month(d) ==
    CASE d[5] = 2 -> IF is_leap_year(d[6]) THEN 29 ELSE 28
      [] d[5] \in {4, 6, 9, 11} -> 30
      [] OTHER -> 31

\* The result of a call that may panic: the value reached and whether it panicked.
Done(d) == [date |-> d, panic |-> FALSE]
Panicked(d) == [date |-> d, panic |-> TRUE]

\* The month/day rollover loop of tick_time.  `self.date.5 += 1` on the u16
\* year 65535 panics with overflow checks and wraps to 0 without them.
RECURSIVE rollover(_, _)
rollover(d, checks) ==
    LET days_in_month == get_days_in_month(d) IN
    IF d[4] > days_in_month
    THEN LET d1 == [d EXCEPT ![4] = d[4] - days_in_month, ![5] = d[5] + 1] IN
         IF d1[5] > 12
         THEN IF d1[6] = 65535
              THEN IF checks
                   THEN Panicked([d1 EXCEPT ![5] = 1])
                   ELSE rollover([d1 EXCEPT ![5] = 1, ![6] = 0], checks)
              ELSE rollover([d1 EXCEPT ![5] = 1, ![6] = d1[6] + 1], checks)
         ELSE rollover(d1, checks)
    ELSE Done(d)

tick_time_Mut(d, checks) ==
    LET s1 == d[1] + 1 IN
    IF s1 < 60 THEN Done([d EXCEPT ![1] = s1])
    ELSE LET m1 == d[2] + (s1 \div 60)
             dA == [d EXCEPT ![1] = s1 % 60, ![2] = m1] IN
         IF m1 < 60 THEN Done(dA)
         ELSE LET h1 == dA[3] + (m1 \div 60)
                  dB == [dA EXCEPT ![2] = m1 % 60, ![3] = h1] IN
              IF h1 < 24 THEN Done(dB)
              ELSE Done([dB EXCEPT ![3] = h1 % 24, ![4] = dB[4] + (h1 \div 24)])

\* Increments by 1 second.  The u8 fields cannot overflow here: second, minute,
\* hour, day and month are below 60, 60, 24, 32 and 13 in every caller.
tick_time(d, checks) ==
    LET s1 == d[1] + 1 IN
    IF s1 < 60 THEN Done([d EXCEPT ![1] = s1])
    ELSE LET m1 == d[2] + (s1 \div 60)
             dA == [d EXCEPT ![1] = s1 % 60, ![2] = m1] IN
         IF m1 < 60 THEN Done(dA)
         ELSE LET h1 == dA[3] + (m1 \div 60)
                  dB == [dA EXCEPT ![2] = m1 % 60, ![3] = h1] IN
              IF h1 < 24 THEN Done(dB)
              ELSE rollover([dB EXCEPT ![3] = h1 % 24, ![4] = dB[4] + (h1 \div 24)],
                            checks)

\* k consecutive calls of tick_time; a panic ends the run.
RECURSIVE tick_times(_, _, _)
tick_times(r, k, checks) ==
    IF k = 0 \/ r.panic THEN r
    ELSE tick_times(tick_time(r.date, checks), k - 1, checks)

\* k times 60 consecutive calls of tick_time (the recursion stays shallow).
RECURSIVE tick_minutes(_, _, _)
tick_minutes(r, k, checks) ==
    IF k = 0 \/ r.panic THEN r
    ELSE tick_minutes(tick_times(r, 60, checks), k - 1, checks)

-----------------------------------------------------------------------------
(* Bounded text buffers: heapless::String<N> written through ufmt::uwrite! *)

Digit(k) == << "0", "1", "2", "3", "4", "5", "6", "7", "8", "9" >>[k + 1]

\* The decimal text of an unsigned number.
RECURSIVE Dec(_)
Dec(v) == IF v < 10 THEN << Digit(v) >> ELSE Dec(v \div 10) \o << Digit(v % 10) >>

\* String::push_str: appends, or fails and leaves the buffer as it is when the
\* text does not fit the capacity.
push_str(w, cap, s) ==
    IF ~w.ok THEN w
    ELSE IF Len(w.buf) + Len(s) > cap THEN [buf |-> w.buf, ok |-> FALSE]
    ELSE [buf |-> w.buf \o s, ok |-> TRUE]

\* uwrite!(buf, ...): the pieces of the format string are appended in order; the
\* first one that does not fit makes the call return Err.
RECURSIVE uwrite_from(_, _, _, _)
uwrite_from(w, cap, pieces, i) ==
    IF i > Len(pieces) THEN w
    ELSE uwrite_from(push_str(w, cap, pieces[i]), cap, pieces, i + 1)

uwrite(buf, cap, pieces) == uwrite_from([buf |-> buf, ok |-> TRUE], cap, pieces, 1)

\* "{} - {}"
fmt_temperature(t) == << Dec(t[1]), << " ", "-", " " >>, Dec(t[2]) >>
\* "{}% - {}%"
fmt_humidity(h) == << Dec(h[1]), << "%", " ", "-", " " >>, Dec(h[2]), << "%" >> >>
\* "Minute: {}", "Hour: {}", "Day: {}", "Month: {}", "Year: {}"
fmt_date_field(i, d) ==
    CASE i = 0 -> << << "M", "i", "n", "u", "t", "e", ":", " " >>, Dec(d[2]) >>
      [] i = 1 -> << << "H", "o", "u", "r", ":", " " >>, Dec(d[3]) >>
      [] i = 2 -> << << "D", "a", "y", ":", " " >>, Dec(d[4]) >>
      [] i = 3 -> << << "M", "o", "n", "t", "h", ":", " " >>, Dec(d[5]) >>
      [] OTHER -> << << "Y", "e", "a", "r", ":", " " >>, Dec(d[6]) >>

\* Gets the date in the HH:MM:SS DD/MM/YYYY format (main.rs: unpadded; 1 is
\* added to the day and to the month).
get_date_formatted(d) ==
    [time |-> uwrite(<< >>, 8, << Dec(d[3]), << ":" >>, Dec(d[2]), << ":" >>, Dec(d[1]) >>),
     date |-> uwrite(<< >>, 10, << Dec(d[4] + 1), << "/" >>, Dec(d[5] + 1), << "/" >>, Dec(d[6]) >>)]

\* Formats the watering time: HH:MM - HH:MM, or None
format_watering_time(w) ==
    IF w = None THEN uwrite(<< >>, 16, << << "N", "o", "n", "e" >> >>)
    ELSE uwrite(<< >>, 16, << Dec(w[2]), << ":" >>, Dec(w[1]), << " ", "-", " " >>,
                              Dec(w[4]), << ":" >>, Dec(w[3]) >>)

-----------------------------------------------------------------------------
(* Sensor values *)

Min(a, b) == IF a < b THEN a ELSE b

\* (celsius * 9/5 + 32) as u8: truncated toward zero and saturated to 0..255.
get_temperature(fd) ==
    LET num == 9 * fd.temperature + 16000 IN
    IF num <= 0 THEN 0 ELSE Min(255, num \div 500)

\* humidity_percent() as u8
get_humidity(fd) == Min(255, fd.humidity \div 1000)

\* pressure_hpa() as u16
get_pressure(fd) == Min(65535, fd.pressure \div 100)

-----------------------------------------------------------------------------
(* Preferences: schedule *)

is_watering_time(d, w) ==
    IF w # None
    THEN d[2] >= w[1] /\ d[2] <= w[3] /\ d[3] >= w[2] /\ d[3] <= w[4]
    ELSE FALSE

\* Sets the watering time from 00:00 to 01:00
set_default_watering_time == << 0, 0, 0, 1 >>

\* Gets the next index for the current day
change_days(d, increment) ==
    LET days_in_month == get_days_in_month(d) IN
    IF increment THEN (d[4] + 1) % days_in_month
    ELSE (d[4] + (days_in_month - 1)) % days_in_month

-----------------------------------------------------------------------------
(* CountDownTimer: a value that is decremented every millisecond *)

\* Creates a new instance of CountDownTimer
CountDownTimer_new(target_ms) == [target_ms |-> target_ms]

\* A tick without the guard: `target_ms -= 1` on the u16 zero wraps.
tick_Mut(t) == [t EXCEPT !.target_ms = (@ + 65535) % 65536]

\* Updates the CountDownTimer
tick(t) == IF t.target_ms > 0 THEN [t EXCEPT !.target_ms = @ - 1] ELSE t

\* Sets the waiting time for the CountDownTimer
set_time(t, ms) == [t EXCEPT !.target_ms = ms]

\* Checks if the CountDownTimer has hit 0
is_finished(t) == t.target_ms = 0

-----------------------------------------------------------------------------
(* The main loop: helpers *)

\* Ticks the cooldown for buttons
tick_buttons(cooldown) == IF cooldown > 0 THEN cooldown - 1 ELSE cooldown

\* A screen iteration with the directions exchanged.
next_screen_Mut(i, next) == IF next THEN (i + 5 - 1) % 5 ELSE (i + 1) % 5

\* Iterates forwards or backwards through Screens
next_screen(i, next) == IF next THEN (i + 1) % 5 ELSE (i + 5 - 1) % 5

check_legality_Mut(p) == p

\* "Check legality" of a (low, high) pair: swapped when low > high.
check_legality(p) == IF p[1] > p[2] THEN << p[2], p[1] >> ELSE p

\* A legality check that swaps start and end whatever their order.
check_watering_legality_Mut(w) == << w[3], w[4], w[1], w[2] >>

\* "Check legality" of the watering window: start and end swapped when start > end.
check_watering_legality(w) ==
    IF (w[2] > w[4]) \/ (w[2] = w[4] /\ w[1] > w[3])
    THEN << w[3], w[4], w[1], w[2] >>
    ELSE w
-----------------------------------------------------------------------------
(* The firmware state as one record, so that code blocks compose in sequence *)

State ==
    [pc |-> pc, temperature |-> temperature, humidity |-> humidity, date |-> date,
     watering |-> watering, current_screen_index |-> current_screen_index,
     wait_time |-> wait_time, button_cooldown |-> button_cooldown, data |-> data,
     buzzer |-> buzzer, sprinklers |-> sprinklers, roof_vent |-> roof_vent,
     roof_open |-> roof_open, editing_lower |-> editing_lower,
     update_date |-> update_date, refresh |-> refresh, info_str |-> info_str,
     index |-> index, last_action |-> last_action, sampled |-> sampled, n |-> n]

Halted(S) == S.pc = "panic"

\* preferences.tick_time() at a call site of the firmware.
Tick(S) ==
    IF Halted(S) \/ ~clock_runs THEN S
    ELSE LET r == tick_time(S.date, overflow_checks) IN
         [S EXCEPT !.date = r.date, !.n = S.n + 1,
                   !.pc = IF r.panic THEN "panic" ELSE S.pc]

\* A scheduler that looks at Select first.
should_update_Mut(S, up, down, select) ==
    LET overflow == S.wait_time = 65535
        w1 == IF overflow THEN 0 ELSE S.wait_time + 1
        S1 == IF overflow /\ overflow_checks
              THEN [S EXCEPT !.pc = "panic"]
              ELSE [S EXCEPT !.wait_time = w1]
        S2 == IF w1 % 100 = 0 THEN Tick(S1) ELSE S1 IN
    IF Halted(S2) THEN S2
    ELSE IF select THEN [S2 EXCEPT !.last_action = "SELECT"]
    ELSE IF up THEN [S2 EXCEPT !.last_action = "UP"]
    ELSE IF down THEN [S2 EXCEPT !.last_action = "DOWN"]
    ELSE IF w1 >= 100 THEN [S2 EXCEPT !.wait_time = 0, !.last_action = "SENSOR"]
    ELSE [S2 EXCEPT !.last_action = "IDLE"]

\* Whether to update the LCD: advances wait_time, keeps the time, and returns
\* the action (recorded in last_action; "IDLE" is update_needed = false).
should_update(S, up, down, select) ==
    LET overflow == S.wait_time = 65535
        w1 == IF overflow THEN 0 ELSE S.wait_time + 1
        S1 == IF overflow /\ overflow_checks
              THEN [S EXCEPT !.pc = "panic"]
              ELSE [S EXCEPT !.wait_time = w1]
        S2 == IF w1 % 100 = 0 THEN Tick(S1) ELSE S1 IN
    IF Halted(S2) THEN S2
    ELSE IF up THEN [S2 EXCEPT !.last_action = "UP"]
    ELSE IF down THEN [S2 EXCEPT !.last_action = "DOWN"]
    ELSE IF select THEN [S2 EXCEPT !.last_action = "SELECT"]
    ELSE IF w1 >= 100 THEN [S2 EXCEPT !.wait_time = 0, !.last_action = "SENSOR"]
    ELSE [S2 EXCEPT !.last_action = "IDLE"]

\* The data_str: String<12> lines of the main screen; one buffer takes both lines.
main_screen_text(S) ==
    LET i == S.current_screen_index IN
    CASE i = 0 ->
           uwrite_from(uwrite(<< >>, 12, << << "T", "e", "m", "p", ":", " " >>,
                                            Dec(get_temperature(S.data)), << "F" >> >>),
                       12, << << "(" >>, Dec(S.temperature[1]), << ",", " " >>,
                              Dec(S.temperature[2]), << ")" >> >>, 1)
      [] i = 1 ->
           uwrite_from(uwrite(<< >>, 12, << << "R", "H", ":", " " >>,
                                            Dec(get_humidity(S.data)), << "%" >> >>),
                       12, << << "(" >>, Dec(S.humidity[1]), << "%", ",", " " >>,
                              Dec(S.humidity[2]), << "%", ")" >> >>, 1)
      [] i = 2 ->
           uwrite(<< >>, 12, << << "P", "R", "S", ":", " " >>, Dec(get_pressure(S.data)),
                                << " ", "m", "b" >> >>)
      [] i = 3 ->
           LET f == get_date_formatted(S.date) IN
           [buf |-> f.time.buf \o f.date.buf, ok |-> f.time.ok /\ f.date.ok]
      [] OTHER -> format_watering_time(S.watering)

\* The redraw at the end of a pass that needed an update; the firmware is then
\* back in the delay at the top of the loop.
render_main(S) ==
    IF Halted(S) THEN S
    ELSE [S EXCEPT !.pc = IF main_screen_text(S).ok THEN "main" ELSE "panic"]

\* The locals of the SELECT branch go out of scope.
end_select(S) ==
    IF Halted(S) THEN S
    ELSE render_main([S EXCEPT !.editing_lower = TRUE, !.update_date = FALSE,
                               !.refresh = TRUE, !.info_str = << >>, !.index = 0])

\* The top of an edit loop, up to its delay_ms(500): the redraw when refresh is set.
redraw(S) ==
    IF Halted(S) \/ ~S.refresh THEN S
    ELSE LET w == CASE S.pc = "temp" -> uwrite(S.info_str, 11, fmt_temperature(S.temperature))
                    [] S.pc = "hum" -> uwrite(S.info_str, 11, fmt_humidity(S.humidity))
                    [] S.pc = "date" -> uwrite(S.info_str, 11, fmt_date_field(S.index, S.date))
                    [] OTHER -> [buf |-> S.info_str, ok |-> format_watering_time(S.watering).ok] IN
         [S EXCEPT !.info_str = w.buf, !.refresh = FALSE,
                   !.pc = IF w.ok THEN S.pc ELSE "panic"]

\* A SELECT branch whose Pressure screen opens the date edit loops.
enter_edit_Mut(S) ==
    LET S1 == [S EXCEPT !.editing_lower = TRUE, !.update_date = FALSE, !.refresh = TRUE,
                        !.info_str = << >>, !.index = 0]
        i == S.current_screen_index IN
    CASE i = 0 -> redraw([S1 EXCEPT !.pc = "temp"])
      [] i = 1 -> redraw([S1 EXCEPT !.pc = "hum"])
      [] i \in {2, 3} -> redraw([S1 EXCEPT !.pc = "date"])
      [] i = 4 -> redraw([S1 EXCEPT !.pc = "water"])
      [] OTHER -> end_select(S1)

\* The SELECT branch with the cooldown elapsed: the locals, then the screen's edit loop.
enter_edit(S) ==
    LET S1 == [S EXCEPT !.editing_lower = TRUE, !.update_date = FALSE, !.refresh = TRUE,
                        !.info_str = << >>, !.index = 0]
        i == S.current_screen_index IN
    CASE i = 0 -> redraw([S1 EXCEPT !.pc = "temp"])
      [] i = 1 -> redraw([S1 EXCEPT !.pc = "hum"])
      [] i = 3 -> redraw([S1 EXCEPT !.pc = "date"])
      [] i = 4 -> redraw([S1 EXCEPT !.pc = "water"])
      [] OTHER -> end_select(S1)

\* An edit loop that calls tick_time after every delay.
sample_clock_Mut(S) ==
    LET S1 == Tick(S) IN
    IF Halted(S1) THEN S1 ELSE [S1 EXCEPT !.update_date = ~S.update_date]

\* After the delay of an edit loop: tick_time on every other sample.
sample_clock(S) ==
    LET S1 == IF S.update_date THEN Tick(S) ELSE S IN
    IF Halted(S1) THEN S1 ELSE [S1 EXCEPT !.update_date = ~S.update_date]

\* One bound of the temperature range stepped by an Up or a Down sample.
temperature_step(v, up) ==
    IF up THEN (IF v < 1 THEN v + 1 ELSE v) ELSE (IF v > 0 THEN v - 1 ELSE v)

\* A humidity step without the guard at 100.
humidity_step_Mut(v, up) ==
    IF up THEN v + 1 ELSE (IF v > 0 THEN v - 1 ELSE v)

\* One bound of the humidity range stepped by an Up or a Down sample.
humidity_step(v, up) ==
    IF up THEN (IF v < 100 THEN v + 1 ELSE v) ELSE (IF v > 0 THEN v - 1 ELSE v)

\* A step that always lands on the low bound.
step_bound_Mut(p, lower, v) == << v, p[2] >>

step_bound(p, lower, v) == IF lower THEN << v, p[2] >> ELSE << p[1], v >>
active_bound(p, lower) == IF lower THEN p[1] ELSE p[2]

\* A sample of the temperature edit loop, up to the next delay.
temp_sample(S, up, down, select) ==
    LET S1 == sample_clock(S) IN
    IF Halted(S1) THEN S1
    ELSE IF up \/ down
    THEN redraw([S1 EXCEPT
                   !.temperature = step_bound(@, S1.editing_lower,
                       temperature_step(active_bound(@, S1.editing_lower), up)),
                   !.refresh = TRUE])
    ELSE IF select
    THEN LET S2 == [S1 EXCEPT !.editing_lower = FALSE, !.refresh = TRUE, !.index = @ + 1] IN
         IF S2.index < 2 THEN redraw(S2)
         ELSE end_select([S2 EXCEPT !.temperature = check_legality(@)])
    ELSE redraw(S1)

\* A sample of the humidity edit loop, up to the next delay.
hum_sample(S, up, down, select) ==
    LET S1 == sample_clock(S) IN
    IF Halted(S1) THEN S1
    ELSE IF up \/ down
    THEN redraw([S1 EXCEPT
                   !.humidity = step_bound(@, S1.editing_lower,
                       humidity_step(active_bound(@, S1.editing_lower), up)),
                   !.refresh = TRUE])
    ELSE IF select
    THEN LET S2 == [S1 EXCEPT !.editing_lower = FALSE, !.refresh = TRUE, !.index = @ + 1] IN
         IF S2.index < 2 THEN redraw(S2)
         ELSE end_select([S2 EXCEPT !.humidity = check_legality(@)])
    ELSE redraw(S1)

\* The field of the date edit loop number i stepped by an Up or a Down sample.
\* `date.5 += 1` on year 65535 panics with overflow checks and wraps without.
date_step(d, i, up) ==
    CASE i = 0 -> Done([d EXCEPT ![2] = IF up THEN (@ + 1) % 60 ELSE (@ + 59) % 60])
      [] i = 1 -> Done([d EXCEPT ![3] = IF up THEN (@ + 1) % 24 ELSE (@ + 23) % 24])
      [] i = 2 -> Done([d EXCEPT ![4] = change_days(d, up)])
      [] i = 3 -> Done([d EXCEPT ![5] = IF up THEN (@ + 1) % 12 ELSE (@ + 11) % 12])
      [] OTHER -> IF up
                  THEN IF d[6] = 65535
                       THEN (IF overflow_checks THEN Panicked(d) ELSE Done([d EXCEPT ![6] = 0]))
                       ELSE Done([d EXCEPT ![6] = @ + 1])
                  ELSE Done([d EXCEPT ![6] = IF @ # 0 THEN @ - 1 ELSE @])

\* A sample of the date edit loops (minute, hour, day, month, year), up to the next delay.
date_sample(S, up, down, select) ==
    LET S1 == sample_clock(S) IN
    IF Halted(S1) THEN S1
    ELSE IF up \/ down
    THEN LET r == date_step(S1.date, S1.index, up) IN
         redraw([S1 EXCEPT !.date = r.date, !.refresh = TRUE,
                           !.pc = IF r.panic THEN "panic" ELSE @])
    ELSE IF select
    THEN LET S2 == [S1 EXCEPT !.refresh = TRUE, !.index = @ + 1] IN
         IF S2.index < 5 THEN redraw(S2) ELSE end_select(S2)
    ELSE redraw(S1)

\* The watering field at visiting position i stepped by an Up or a Down sample:
\* `preferences.watering.unwrap().1 = ...` assigns to a copy of the tuple, which
\* is dropped; the stored window keeps its value.
watering_step(w, i, up) ==
    IF w = None THEN set_default_watering_time ELSE w

\* A sample of the watering edit loop, up to the next delay.
water_sample(S, up, down, select) ==
    LET S1 == sample_clock(S) IN
    IF Halted(S1) THEN S1
    ELSE IF up /\ down THEN end_select(S1)
    ELSE IF up \/ down
    THEN redraw([S1 EXCEPT !.watering = watering_step(@, S1.index, up), !.refresh = TRUE])
    ELSE IF select
    THEN LET S2 == [S1 EXCEPT !.refresh = TRUE, !.index = @ + 1] IN
         IF S2.index < 4 THEN redraw(S2)
         ELSE IF S2.watering = None THEN [S2 EXCEPT !.pc = "panic"]
         ELSE end_select([S2 EXCEPT !.watering = check_watering_legality(@)])
    ELSE redraw(S1)

\* The sprinkler decisions of the Sensor action: the humidity check, then the
\* watering check.
sprinkler_decision(S) ==
    LET h == get_humidity(S.data)
        after_humidity == h < S.humidity[1] \/ h > S.humidity[2]
        after_watering == IF is_watering_time(S.date, S.watering) THEN TRUE ELSE FALSE IN
    after_watering

\* The vent decision of the Sensor action: open outside the temperature range.
vent_decision_Mut(S) ==
    LET temp == get_temperature(S.data) IN
    temp <= S.temperature[1] \/ temp >= S.temperature[2]

vent_decision(S) ==
    LET temp == get_temperature(S.data) IN
    temp < S.temperature[1] \/ temp > S.temperature[2]

\* get_bme_data and the vent and sprinkler decisions, then the redraw.  A failed
\* mode set never returns (prep_bme); a failed read yields FieldData::default().
read_and_actuate(S, mode_ok, result) ==
    IF Halted(S) THEN S
    ELSE IF ~mode_ok THEN [S EXCEPT !.buzzer = TRUE, !.pc = "fault_on"]
    ELSE LET S1 == [S EXCEPT !.data = result]
             S2 == [S1 EXCEPT !.roof_vent = vent_decision(S1)] IN
         render_main([S2 EXCEPT !.sprinklers = sprinkler_decision(S2)])

\* A latch body that leaves the vent as it is.
latch_body_Mut(S) ==
    [S EXCEPT !.sprinklers = TRUE, !.buzzer = TRUE, !.pc = "latch"]

\* The body of the smoke latch loop, up to its delay_ms(1000).
latch_body(S) ==
    [S EXCEPT !.sprinklers = TRUE, !.roof_vent = FALSE, !.buzzer = TRUE, !.pc = "latch"]

\* A release that opens the vent whatever it was before.
latch_release_Mut(S) ==
    [S EXCEPT !.buzzer = FALSE, !.sprinklers = FALSE, !.roof_vent = TRUE]

\* The code after the latch loop: alarm and sprinklers off, the vent reopened if
\* it was open when the latch was entered.
latch_release(S) ==
    [S EXCEPT !.buzzer = FALSE, !.sprinklers = FALSE,
              !.roof_vent = IF S.roof_open THEN TRUE ELSE @]

\* The Sensor action.
sensor_action(S, mode_ok, result) ==
    IF smoke_detector
    THEN latch_body([S EXCEPT !.roof_open = S.roof_vent])
    ELSE read_and_actuate(S, mode_ok, result)

\* After the delay of the latch loop: the clock, then the detector again.
latch_step(S, mode_ok, result) ==
    LET S1 == Tick(S) IN
    IF Halted(S1) THEN S1
    ELSE IF smoke_detector THEN latch_body([S1 EXCEPT !.last_action = "LATCH"])
    ELSE read_and_actuate(latch_release([S1 EXCEPT !.last_action = "RELEASE"]),
                          mode_ok, result)

\* A pass whose navigation falls through into the sensor cycle.
pass_Mut(S, up, down, select, mode_ok, result) ==
    LET S1 == should_update([S EXCEPT !.button_cooldown = tick_buttons(@)], up, down, select)
        a == S1.last_action IN
    IF Halted(S1) \/ a = "IDLE" THEN S1
    ELSE IF a \in {"UP", "DOWN"}
    THEN sensor_action(IF S1.button_cooldown = 0
                       THEN [S1 EXCEPT !.current_screen_index = next_screen(@, a = "UP"),
                                       !.button_cooldown = 50]
                       ELSE S1, mode_ok, result)
    ELSE IF a = "SELECT"
    THEN (IF S1.button_cooldown = 0 THEN enter_edit(S1) ELSE render_main(S1))
    ELSE sensor_action(S1, mode_ok, result)

\* One pass of the main loop, from the delay_ms(10) to the next delay.
pass(S, up, down, select, mode_ok, result) ==
    LET S1 == should_update([S EXCEPT !.button_cooldown = tick_buttons(@)], up, down, select)
        a == S1.last_action IN
    IF Halted(S1) \/ a = "IDLE" THEN S1
    ELSE IF a \in {"UP", "DOWN"}
    THEN render_main(IF S1.button_cooldown = 0
                     THEN [S1 EXCEPT !.current_screen_index = next_screen(@, a = "UP"),
                                     !.button_cooldown = 50]
                     ELSE S1)
    ELSE IF a = "SELECT"
    THEN (IF S1.button_cooldown = 0 THEN enter_edit(S1) ELSE render_main(S1))
    ELSE sensor_action(S1, mode_ok, result)

-----------------------------------------------------------------------------
(* The firmware as a state machine *)

\* What the sensor can deliver: a reading inside both default ranges (69 F, 65 %),
\* one outside both (86 F, 50 %), one on the low bounds (60 F, 60 %), one on the
\* high bounds (80 F, 70 %), and FieldData::default() for a read that fails.
Readings ==
    { [temperature |-> 2100, humidity |-> 65000, pressure |-> 101300],
      [temperature |-> 3000, humidity |-> 50000, pressure |-> 101300],
      [temperature |-> 1556, humidity |-> 60000, pressure |-> 101300],
      [temperature |-> 2667, humidity |-> 70000, pressure |-> 101300] }
SensorResults == Readings \cup { DefaultFieldData }

\* The sensor's answers, consulted only by a step that reaches get_bme_data.
SensorIO(consulted) ==
    IF consulted
    THEN { << m, r >> : m \in BOOLEAN, r \in SensorResults }
    ELSE { << TRUE, DefaultFieldData >> }

\* The passes at which the environment presents buttons: every tenth pass of a
\* sensor period, and none once wait_time nears MaxWait.
PressPasses == { w \in 1..(MaxWait - 1) : w % 10 = 0 }

\* The button samples of a pass.
PassButtons ==
    IF wait_time + 1 \in PressPasses
    THEN { << u, d, s >> : u \in BOOLEAN, d \in BOOLEAN, s \in BOOLEAN }
    ELSE { << FALSE, FALSE, FALSE >> }

Assign(S) ==
    /\ S.n <= MaxTicks
    /\ pc' = S.pc
    /\ temperature' = S.temperature
    /\ humidity' = S.humidity
    /\ date' = S.date
    /\ watering' = S.watering
    /\ current_screen_index' = S.current_screen_index
    /\ wait_time' = S.wait_time
    /\ button_cooldown' = S.button_cooldown
    /\ data' = S.data
    /\ buzzer' = S.buzzer
    /\ sprinklers' = S.sprinklers
    /\ roof_vent' = S.roof_vent
    /\ roof_open' = S.roof_open
    /\ editing_lower' = S.editing_lower
    /\ update_date' = S.update_date
    /\ refresh' = S.refresh
    /\ info_str' = S.info_str
    /\ index' = S.index
    /\ last_action' = S.last_action
    /\ sampled' = S.sampled
    /\ n' = S.n
    /\ UNCHANGED << smoke_detector, overflow_checks, clock_runs, start, returned >>

InitCommon ==
    /\ pc = "main"
    /\ temperature = DefaultTemperature
    /\ humidity = DefaultHumidity
    /\ date = DefaultDate
    /\ watering = None
    /\ current_screen_index = 0
    /\ wait_time = 0
    /\ button_cooldown = 50
    /\ data = DefaultFieldData
    /\ buzzer = FALSE /\ sprinklers = FALSE /\ roof_vent = FALSE
    /\ smoke_detector = FALSE
    /\ roof_open = FALSE
    /\ editing_lower = TRUE /\ update_date = FALSE /\ refresh = TRUE
    /\ info_str = << >>
    /\ index = 0
    /\ last_action = "IDLE"
    /\ sampled = << FALSE, FALSE, FALSE >>
    /\ overflow_checks \in BOOLEAN
    /\ start = DefaultDate
    /\ returned = None
    /\ n = 0

Init == InitCommon /\ clock_runs = TRUE

Pass ==
    /\ pc = "main"
    /\ \E b \in PassButtons :
         \E io \in SensorIO(b = << FALSE, FALSE, FALSE >> /\ wait_time + 1 >= 100
                              /\ ~smoke_detector) :
           \E S \in { pass([State EXCEPT !.sampled = b], b[1], b[2], b[3], io[1], io[2]) } :
             Assign(S)

Sample ==
    /\ pc \in {"temp", "hum", "date", "water"}
    /\ \E up \in BOOLEAN, down \in BOOLEAN, select \in BOOLEAN :
         LET S0 == [State EXCEPT !.sampled = << up, down, select >>] IN
         \E S \in { CASE pc = "temp" -> temp_sample(S0, up, down, select)
                      [] pc = "hum" -> hum_sample(S0, up, down, select)
                      [] pc = "date" -> date_sample(S0, up, down, select)
                      [] OTHER -> water_sample(S0, up, down, select) } : Assign(S)

LatchStep ==
    /\ pc = "latch"
    /\ \E io \in SensorIO(~smoke_detector) :
         \E S \in { latch_step(State, io[1], io[2]) } : Assign(S)

\* An alarm loop that gives up after one beep and returns to the main loop.
FaultStep_Mut ==
    /\ pc \in {"fault_on", "fault_off"}
    /\ Assign([State EXCEPT !.buzzer = ~@,
                            !.pc = IF @ = "fault_on" THEN "fault_off" ELSE "main"])

\* prep_bme's loop: the alarm goes low after 500 ms and high again after 1000 ms.
FaultStep ==
    /\ pc \in {"fault_on", "fault_off"}
    /\ Assign([State EXCEPT !.buzzer = ~@,
                            !.pc = IF @ = "fault_on" THEN "fault_off" ELSE "fault_on"])

\* The smoke detector's level changes.
SmokeChange ==
    /\ pc \in {"main", "temp", "hum", "date", "water", "latch"}
    /\ smoke_detector' = ~smoke_detector
    /\ UNCHANGED << pc, temperature, humidity, date, watering, current_screen_index,
                    wait_time, button_cooldown, data, buzzer, sprinklers, roof_vent,
                    roof_open, editing_lower, update_date, refresh, info_str, index,
                    last_action, sampled, overflow_checks, clock_runs, start, returned, n >>

Next == Pass \/ Sample \/ LatchStep \/ FaultStep \/ SmokeChange

Spec == Init /\ [][Next]_vars

\* The firmware with the clock value held, so that its runs are cycles of
\* finitely many states: no guard on the way to the smoke latch reads the clock.
\* The firmware itself always takes its next step; the detector need not change.
InitLive == InitCommon /\ clock_runs = FALSE

Progress == Pass \/ Sample \/ LatchStep \/ FaultStep

SpecLive == InitLive /\ [][Next]_vars /\ WF_vars(Progress)

\* The firmware with its clock running; the delays of prep_bme's loop elapse.
SpecFault == Init /\ [][Next]_vars /\ WF_vars(FaultStep)

-----------------------------------------------------------------------------
(* Harness: the clock driven one tick_time call at a time *)

\* The calendar: the number of days of a month of a year.
DaysInMonth(month, year) ==
    IF month = 2
    THEN (IF year % 4 = 0 /\ (year % 100 # 0 \/ year % 400 = 0) THEN 29 ELSE 28)
    ELSE IF month \in {4, 6, 9, 11} THEN 30 ELSE 31

\* A normalized clock state.
Normalized(d) ==
    /\ d[1] \in 0..59 /\ d[2] \in 0..59 /\ d[3] \in 0..23
    /\ d[5] \in 1..12
    /\ d[4] >= 1 /\ d[4] <= DaysInMonth(d[5], d[6])
    /\ d[6] \in 0..65535

ClockYears == {0, 1900, 2000, 2023, 2024, 2100, 65535}
ClockTimes == { <<0, 0, 0>>, <<59, 0, 0>>, <<59, 59, 0>>, <<58, 59, 23>>, <<59, 59, 23>> }
ClockInputs ==
    { d \in { <<t[1], t[2], t[3], dd, mm, yy>> :
                t \in ClockTimes, dd \in {1, 27, 28, 29, 30, 31}, mm \in 1..12,
                yy \in ClockYears } : Normalized(d) }

\* The part of the state a harness does not use.
HarnessIdle ==
    /\ current_screen_index = 0
    /\ wait_time = 0
    /\ button_cooldown = 50
    /\ data = DefaultFieldData
    /\ buzzer = FALSE /\ sprinklers = FALSE /\ roof_vent = FALSE
    /\ smoke_detector = FALSE
    /\ roof_open = FALSE
    /\ editing_lower = TRUE /\ update_date = FALSE /\ refresh = TRUE
    /\ info_str = << >>
    /\ index = 0
    /\ last_action = "IDLE"
    /\ sampled = << FALSE, FALSE, FALSE >>
    /\ clock_runs = TRUE

HarnessFrame ==
    UNCHANGED << current_screen_index, wait_time, button_cooldown, data, buzzer, sprinklers,
                 roof_vent, smoke_detector, roof_open, editing_lower, update_date, refresh,
                 info_str, index, last_action, sampled, overflow_checks, clock_runs, start >>

InitClock ==
    /\ pc = "harness"
    /\ date \in ClockInputs
    /\ overflow_checks \in BOOLEAN
    /\ start = date
    /\ n = 0
    /\ temperature = DefaultTemperature
    /\ humidity = DefaultHumidity
    /\ watering = None
    /\ returned = None
    /\ HarnessIdle

ClockTick ==
    /\ pc = "harness"
    /\ n < MaxClockTicks
    /\ LET r == tick_time(date, overflow_checks) IN
         /\ date' = r.date
         /\ pc' = IF r.panic THEN "panic" ELSE pc
    /\ n' = n + 1
    /\ UNCHANGED << temperature, humidity, watering, returned >>
    /\ HarnessFrame

NextClock == ClockTick

SpecClock == InitClock /\ [][NextClock]_vars

-----------------------------------------------------------------------------
(* Harness: the clock driven an hour (3600 tick_time calls) at a time *)

DayTimes == { <<0, 0, 0>>, <<42, 37, 13>> }
DayDates == { <<1, 1>>, <<31, 1>>, <<28, 2>>, <<29, 2>>, <<30, 4>>, <<31, 12>> }
DayYears == {1900, 2000, 2023, 65535}
DayInputs ==
    { d \in { <<t[1], t[2], t[3], dm[1], dm[2], yy>> :
                t \in DayTimes, dm \in DayDates, yy \in DayYears } : Normalized(d) }

\* The hours a run lasts: a day, and the 31 days of January from the epoch.
DayHours == IF start = DefaultDate THEN 31 * 24 ELSE 24

InitDay ==
    /\ pc = "harness"
    /\ date \in DayInputs
    /\ overflow_checks \in BOOLEAN
    /\ start = date
    /\ n = 0
    /\ temperature = DefaultTemperature
    /\ humidity = DefaultHumidity
    /\ watering = None
    /\ returned = None
    /\ HarnessIdle

DayHour ==
    /\ pc = "harness"
    /\ n < DayHours
    /\ \E r \in { tick_minutes(Done(date), 60, overflow_checks) } :
         /\ date' = r.date
         /\ pc' = IF r.panic THEN "panic" ELSE pc
    /\ n' = n + 1
    /\ UNCHANGED << temperature, humidity, watering, returned >>
    /\ HarnessFrame

NextDay == DayHour

SpecDay == InitDay /\ [][NextDay]_vars

-----------------------------------------------------------------------------
(* Harness: the library's Preferences, from Preferences::default() *)

InitLib ==
    /\ pc = "harness"
    /\ temperature = DefaultTemperature
    /\ humidity = DefaultHumidity
    /\ date = LibDefaultDate
    /\ watering = None
    /\ overflow_checks \in BOOLEAN
    /\ start = date
    /\ returned = None
    /\ n = 0
    /\ HarnessIdle

LibTick ==
    /\ pc = "harness"
    /\ n < MaxClockTicks
    /\ LET r == tick_time(date, overflow_checks) IN
         /\ date' = r.date
         /\ pc' = IF r.panic THEN "panic" ELSE pc
    /\ n' = n + 1
    /\ UNCHANGED << temperature, humidity, watering, returned >>
    /\ HarnessFrame

\* The day edit: the day becomes change_days(increment).
LibChangeDays ==
    /\ pc = "harness"
    /\ \E increment \in BOOLEAN : date' = [date EXCEPT ![4] = change_days(date, increment)]
    /\ UNCHANGED << pc, temperature, humidity, watering, returned, n >>
    /\ HarnessFrame

LibSetDefaultWatering ==
    /\ pc = "harness"
    /\ watering' = set_default_watering_time
    /\ UNCHANGED << pc, temperature, humidity, date, returned, n >>
    /\ HarnessFrame

NextLib == LibTick \/ LibChangeDays \/ LibSetDefaultWatering

SpecLib == InitLib /\ [][NextLib]_vars

-----------------------------------------------------------------------------
(* Harness: the commit step of a range edit applied to one pair *)

CommitValues == {0, 1, 60, 70, 80, 100, 255}
CommitPairs == { << lo, hi >> : lo \in CommitValues, hi \in CommitValues }

InitCommit ==
    /\ pc = "harness"
    /\ temperature \in CommitPairs
    /\ humidity \in CommitPairs
    /\ date = DefaultDate
    /\ watering = None
    /\ overflow_checks \in BOOLEAN
    /\ start = << temperature, humidity >>
    /\ returned = None
    /\ n = 0
    /\ HarnessIdle

\* The legality check that ends the temperature edit.
CommitTemperature ==
    /\ pc = "harness"
    /\ temperature' = check_legality(temperature)
    /\ pc' = "committed_temperature"
    /\ n' = n + 1
    /\ UNCHANGED << humidity, date, watering, returned >>
    /\ HarnessFrame

\* The legality check that ends the humidity edit.
CommitHumidity ==
    /\ pc = "harness"
    /\ humidity' = check_legality(humidity)
    /\ pc' = "committed_humidity"
    /\ n' = n + 1
    /\ UNCHANGED << temperature, date, watering, returned >>
    /\ HarnessFrame

NextCommit == CommitTemperature \/ CommitHumidity

SpecCommit == InitCommit /\ [][NextCommit]_vars

-----------------------------------------------------------------------------
(* Harness: is_watering_time applied to one window and one clock state *)

WaterMinutes == {0, 1, 30, 45, 59}
WaterHours == {0, 7, 8, 23}
WaterWindows ==
    { << sm, sh, em, eh >> : sm \in {0, 30}, sh \in {0, 7}, em \in {0, 30}, eh \in {1, 8} }

InitWater ==
    /\ pc = "harness"
    /\ temperature = DefaultTemperature
    /\ humidity = DefaultHumidity
    /\ \E mi \in WaterMinutes, h \in WaterHours : date = << 0, mi, h, 1, 1, 2000 >>
    /\ watering \in WaterWindows \cup { None }
    /\ overflow_checks \in BOOLEAN
    /\ start = date
    /\ returned = None
    /\ n = 0
    /\ HarnessIdle

WaterCheck ==
    /\ pc = "harness"
    /\ returned' = is_watering_time(date, watering)
    /\ pc' = "returned"
    /\ n' = n + 1
    /\ UNCHANGED << temperature, humidity, date, watering >>
    /\ HarnessFrame

NextWater == WaterCheck

SpecWater == InitWater /\ [][NextWater]_vars

-----------------------------------------------------------------------------
(* Harness: screen navigation, one Up or Down action at a time *)

InitNav ==
    /\ pc = "harness"
    /\ temperature = DefaultTemperature
    /\ humidity = DefaultHumidity
    /\ date = DefaultDate
    /\ watering = None
    /\ current_screen_index \in 0..4
    /\ wait_time = 0
    /\ button_cooldown = 0
    /\ data = DefaultFieldData
    /\ buzzer = FALSE /\ sprinklers = FALSE /\ roof_vent = FALSE
    /\ smoke_detector = FALSE
    /\ roof_open = FALSE
    /\ editing_lower = TRUE /\ update_date = FALSE /\ refresh = TRUE
    /\ info_str = << >>
    /\ index = 0
    /\ last_action = "IDLE"
    /\ sampled = << FALSE, FALSE, FALSE >>
    /\ overflow_checks \in BOOLEAN
    /\ clock_runs = TRUE
    /\ start = current_screen_index
    /\ returned = << >>
    /\ n = 0

\* The UP or DOWN branch with the cooldown elapsed; `returned` keeps the
\* directions taken so far (TRUE: Up).
Navigate(next) ==
    /\ pc = "harness"
    /\ n < MaxNav
    /\ current_screen_index' = next_screen(current_screen_index, next)
    /\ last_action' = IF next THEN "UP" ELSE "DOWN"
    /\ returned' = Append(returned, next)
    /\ n' = n + 1
    /\ UNCHANGED << pc, temperature, humidity, date, watering, wait_time, button_cooldown,
                    data, buzzer, sprinklers, roof_vent, smoke_detector, roof_open,
                    editing_lower, update_date, refresh, info_str, index, sampled,
                    overflow_checks, clock_runs, start >>

NavUp == Navigate(TRUE)

NavDown == Navigate(FALSE)

NextNav == NavUp \/ NavDown

SpecNav == InitNav /\ [][NextNav]_vars

-----------------------------------------------------------------------------
(* Harness: one edit session, sample by sample *)

EditScreens == {0, 1, 3, 4}

\* The clock at the Select that opens the session: the epoch, the last second
\* of a leap February and the last second of the u16 calendar.
EditDates ==
    { DefaultDate, << 59, 59, 23, 29, 2, 2024 >>, << 59, 59, 23, 31, 12, 65535 >> }

\* The main loop at a SELECT action with the cooldown elapsed.
AtSelect(i, d) ==
    [pc |-> "main", temperature |-> DefaultTemperature, humidity |-> DefaultHumidity,
     date |-> d, watering |-> None, current_screen_index |-> i, wait_time |-> 1,
     button_cooldown |-> 0, data |-> DefaultFieldData, buzzer |-> FALSE,
     sprinklers |-> FALSE, roof_vent |-> FALSE, roof_open |-> FALSE,
     editing_lower |-> TRUE, update_date |-> FALSE, refresh |-> TRUE,
     info_str |-> << >>, index |-> 0, last_action |-> "SELECT",
     sampled |-> << FALSE, FALSE, TRUE >>, n |-> 0]

\* The fields of a state record, stored; `returned` counts the samples.
AssignSession(S) ==
    /\ pc' = S.pc
    /\ temperature' = S.temperature
    /\ humidity' = S.humidity
    /\ date' = S.date
    /\ watering' = S.watering
    /\ current_screen_index' = S.current_screen_index
    /\ wait_time' = S.wait_time
    /\ button_cooldown' = S.button_cooldown
    /\ data' = S.data
    /\ buzzer' = S.buzzer
    /\ sprinklers' = S.sprinklers
    /\ roof_vent' = S.roof_vent
    /\ roof_open' = S.roof_open
    /\ editing_lower' = S.editing_lower
    /\ update_date' = S.update_date
    /\ refresh' = S.refresh
    /\ info_str' = S.info_str
    /\ index' = S.index
    /\ last_action' = S.last_action
    /\ sampled' = S.sampled
    /\ n' = S.n
    /\ returned' = returned + 1
    /\ UNCHANGED << smoke_detector, overflow_checks, clock_runs, start >>

\* The session as enter_edit leaves it, blocked in its first delay_ms(500).
InitEdit ==
    /\ overflow_checks \in BOOLEAN
    /\ clock_runs = TRUE
    /\ smoke_detector = FALSE
    /\ \E i \in EditScreens, d \in EditDates :
         LET S == enter_edit(AtSelect(i, d)) IN
         /\ pc = S.pc
         /\ temperature = S.temperature
         /\ humidity = S.humidity
         /\ date = S.date
         /\ watering = S.watering
         /\ current_screen_index = S.current_screen_index
         /\ wait_time = S.wait_time
         /\ button_cooldown = S.button_cooldown
         /\ data = S.data
         /\ buzzer = S.buzzer
         /\ sprinklers = S.sprinklers
         /\ roof_vent = S.roof_vent
         /\ roof_open = S.roof_open
         /\ editing_lower = S.editing_lower
         /\ update_date = S.update_date
         /\ refresh = S.refresh
         /\ info_str = S.info_str
         /\ index = S.index
         /\ last_action = S.last_action
         /\ sampled = S.sampled
         /\ n = S.n
         /\ start = d
    /\ returned = 0

\* One pass of the session's edit loop: the delay, the clock, the buttons.
SessionSample ==
    /\ pc \in {"temp", "hum", "date", "water"}
    /\ returned < MaxSamples
    /\ \E up \in BOOLEAN, down \in BOOLEAN, select \in BOOLEAN :
         LET S0 == [State EXCEPT !.sampled = << up, down, select >>] IN
         \E S \in { CASE pc = "temp" -> temp_sample(S0, up, down, select)
                      [] pc = "hum" -> hum_sample(S0, up, down, select)
                      [] pc = "date" -> date_sample(S0, up, down, select)
                      [] OTHER -> water_sample(S0, up, down, select) } :
           AssignSession(S)

NextEdit == SessionSample

SpecEdit == InitEdit /\ [][NextEdit]_vars

-----------------------------------------------------------------------------
(* Harness: the Up and Down steps of the date edit loops, applied to a clock *)

\* Every minute, every hour, every day of 2023 and 2024, and the two ends of
\* the u16 year.
StepDates ==
    { << 0, m, 0, 1, 1, 2000 >> : m \in 0..59 }
    \cup { << 0, 0, h, 1, 1, 2000 >> : h \in 0..23 }
    \cup { d \in { << 0, 0, 0, dd, mm, yy >> : dd \in 1..31, mm \in 1..12,
                                              yy \in {2023, 2024} } : Normalized(d) }
    \cup { << 0, 0, 0, 1, 1, 0 >>, << 0, 0, 0, 1, 1, 65535 >> }

InitStep ==
    /\ pc = "harness"
    /\ date \in StepDates
    /\ overflow_checks \in BOOLEAN
    /\ start = date
    /\ n = 0
    /\ temperature = DefaultTemperature
    /\ humidity = DefaultHumidity
    /\ watering = None
    /\ returned = << >>
    /\ HarnessIdle

\* The Up or Down branch of the date edit loop number i (0: minute .. 4: year);
\* `returned` keeps the steps taken, as << loop, up >> pairs.
DateStep ==
    /\ pc = "harness"
    /\ Len(returned) < MaxSteps
    /\ \E i \in 0..4, up \in BOOLEAN :
         LET r == date_step(date, i, up) IN
         /\ date' = r.date
         /\ pc' = IF r.panic THEN "panic" ELSE pc
         /\ returned' = Append(returned, << i, up >>)
    /\ n' = n + 1
    /\ UNCHANGED << temperature, humidity, watering >>
    /\ HarnessFrame

NextStep == DateStep

SpecStep == InitStep /\ [][NextStep]_vars

-----------------------------------------------------------------------------
(* Harness: the Up, Down and Select branches of the two range edit loops; pc
   names the loop, as in the firmware *)

RangeTemperatures == {0, 1, 60, 80}
RangeHumidities == {0, 1, 50, 99, 100}

InitRange ==
    /\ pc \in {"temp", "hum"}
    /\ temperature \in { << lo, hi >> : lo \in RangeTemperatures, hi \in RangeTemperatures }
    /\ humidity \in { << lo, hi >> : lo \in RangeHumidities, hi \in RangeHumidities }
    /\ date = DefaultDate
    /\ watering = None
    /\ current_screen_index = 0
    /\ wait_time = 0
    /\ button_cooldown = 0
    /\ data = DefaultFieldData
    /\ buzzer = FALSE /\ sprinklers = FALSE /\ roof_vent = FALSE
    /\ smoke_detector = FALSE
    /\ roof_open = FALSE
    /\ editing_lower = TRUE /\ update_date = FALSE /\ refresh = TRUE
    /\ info_str = << >>
    /\ index = 0
    /\ last_action = "SELECT"
    /\ sampled = << FALSE, FALSE, TRUE >>
    /\ overflow_checks \in BOOLEAN
    /\ clock_runs = TRUE
    /\ start = << temperature, humidity >>
    /\ returned = None
    /\ n = 0

RangeFrame ==
    UNCHANGED << pc, date, watering, current_screen_index, wait_time, button_cooldown, data,
                 buzzer, sprinklers, roof_vent, smoke_detector, roof_open, update_date,
                 refresh, info_str, index, overflow_checks, clock_runs, start, returned >>

\* The Up or Down branch of the temperature edit loop.
TemperatureStep ==
    /\ pc = "temp"
    /\ n < MaxRangeSteps
    /\ \E up \in BOOLEAN :
         /\ temperature' = step_bound(temperature, editing_lower,
                               temperature_step(active_bound(temperature, editing_lower), up))
         /\ last_action' = IF up THEN "UP" ELSE "DOWN"
         /\ sampled' = << up, ~up, FALSE >>
    /\ n' = n + 1
    /\ UNCHANGED << humidity, editing_lower >>
    /\ RangeFrame

\* The Up or Down branch of the humidity edit loop.
HumidityStep ==
    /\ pc = "hum"
    /\ n < MaxRangeSteps
    /\ \E up \in BOOLEAN :
         /\ humidity' = step_bound(humidity, editing_lower,
                            humidity_step(active_bound(humidity, editing_lower), up))
         /\ last_action' = IF up THEN "UP" ELSE "DOWN"
         /\ sampled' = << up, ~up, FALSE >>
    /\ n' = n + 1
    /\ UNCHANGED << temperature, editing_lower >>
    /\ RangeFrame

\* The Select branch on the lower bound: the loop of the upper bound follows.
RangeSelect ==
    /\ pc \in {"temp", "hum"}
    /\ editing_lower
    /\ editing_lower' = FALSE
    /\ last_action' = "SELECT"
    /\ sampled' = << FALSE, FALSE, TRUE >>
    /\ UNCHANGED << temperature, humidity, n >>
    /\ RangeFrame

NextRange == TemperatureStep \/ HumidityStep \/ RangeSelect

SpecRange == InitRange /\ [][NextRange]_vars

-----------------------------------------------------------------------------
(* Harness: one CountDownTimer, and the button cooldown of the main loop *)

\* Waiting times in milliseconds, the greatest u16 among them.
TimerTimes == {0, 1, 2, 3, 65535}

\* `returned` holds the timer, `start` the time it was last given, `n` the
\* ticks since then.
InitTimer ==
    /\ pc = "harness"
    /\ \E ms \in TimerTimes : returned = CountDownTimer_new(ms) /\ start = ms
    /\ n = 0
    /\ temperature = DefaultTemperature
    /\ humidity = DefaultHumidity
    /\ date = DefaultDate
    /\ watering = None
    /\ overflow_checks \in BOOLEAN
    /\ HarnessIdle

TimerFrame ==
    UNCHANGED << pc, temperature, humidity, date, watering, current_screen_index, wait_time,
                 data, buzzer, sprinklers, roof_vent, smoke_detector, roof_open,
                 editing_lower, update_date, refresh, info_str, index, last_action, sampled,
                 overflow_checks, clock_runs >>

TimerTick ==
    /\ pc = "harness"
    /\ n < MaxTimerTicks
    /\ returned' = tick(returned)
    /\ n' = n + 1
    /\ UNCHANGED << start, button_cooldown >>
    /\ TimerFrame

TimerSetTime ==
    /\ pc = "harness"
    /\ \E ms \in TimerTimes : returned' = set_time(returned, ms) /\ start' = ms
    /\ n' = 0
    /\ UNCHANGED button_cooldown
    /\ TimerFrame

\* button_cooldown = tick_buttons(button_cooldown), once per pass.
CooldownTick ==
    /\ pc = "harness"
    /\ button_cooldown' = tick_buttons(button_cooldown)
    /\ UNCHANGED << start, returned, n >>
    /\ TimerFrame

\* The UP and DOWN branches with the cooldown elapsed: button_cooldown = 50.
CooldownReset ==
    /\ pc = "harness"
    /\ button_cooldown = 0
    /\ button_cooldown' = 50
    /\ UNCHANGED << start, returned, n >>
    /\ TimerFrame

NextTimer == TimerTick \/ TimerSetTime \/ CooldownTick \/ CooldownReset

SpecTimer == InitTimer /\ [][NextTimer]_vars

-----------------------------------------------------------------------------
(* Harness: the scheduler alone, pass after pass of the main loop *)

\* The firmware's startup state; `returned` counts the passes.
InitSched ==
    /\ pc = "main"
    /\ temperature = DefaultTemperature
    /\ humidity = DefaultHumidity
    /\ date = DefaultDate
    /\ watering = None
    /\ current_screen_index = 0
    /\ wait_time = 0
    /\ button_cooldown = 50
    /\ data = DefaultFieldData
    /\ buzzer = FALSE /\ sprinklers = FALSE /\ roof_vent = FALSE
    /\ smoke_detector = FALSE
    /\ roof_open = FALSE
    /\ editing_lower = TRUE /\ update_date = FALSE /\ refresh = TRUE
    /\ info_str = << >>
    /\ index = 0
    /\ last_action = "IDLE"
    /\ sampled = << FALSE, FALSE, FALSE >>
    /\ overflow_checks \in BOOLEAN
    /\ clock_runs = TRUE
    /\ start = DefaultDate
    /\ returned = 0
    /\ n = 0

\* One call of should_update, with the buttons of the pass.
SchedPass ==
    /\ pc = "main"
    /\ returned < MaxPasses
    /\ \E b \in PassButtons :
         \E S \in { should_update([State EXCEPT !.sampled = b], b[1], b[2], b[3]) } :
           AssignSession(S)

NextSched == SchedPass

SpecSched == InitSched /\ [][NextSched]_vars

-----------------------------------------------------------------------------
(* Harness: the scheduler after a button was held for 65500 passes *)

\* The main loop on the Pressure screen, where Select held asserted gives a
\* SELECT outcome at every pass and changes nothing: wait_time has counted
\* 65500 passes since the last Sensor action and the clock 655 seconds.
\* `returned` counts the passes from here.
InitHeld ==
    /\ pc = "main"
    /\ temperature = DefaultTemperature
    /\ humidity = DefaultHumidity
    /\ date = << 56, 10, 0, 1, 1, 2000 >>
    /\ watering = None
    /\ current_screen_index = 2
    /\ wait_time = 65500
    /\ button_cooldown = 0
    /\ data \in Readings
    /\ buzzer = FALSE /\ sprinklers = FALSE /\ roof_vent = FALSE
    /\ smoke_detector = FALSE
    /\ roof_open = FALSE
    /\ editing_lower = TRUE /\ update_date = FALSE /\ refresh = TRUE
    /\ info_str = << >>
    /\ index = 0
    /\ last_action = "SELECT"
    /\ sampled = << FALSE, FALSE, TRUE >>
    /\ overflow_checks \in BOOLEAN
    /\ clock_runs = TRUE
    /\ start = date
    /\ returned = 0
    /\ n = 0

\* One call of should_update, with any buttons.
HeldPass ==
    /\ pc = "main"
    /\ returned < MaxHeld
    /\ \E up \in BOOLEAN, down \in BOOLEAN, select \in BOOLEAN :
         \E S \in { should_update([State EXCEPT !.sampled = << up, down, select >>],
                                   up, down, select) } :
           AssignSession(S)

NextHeld == HeldPass

SpecHeld == InitHeld /\ [][NextHeld]_vars

-----------------------------------------------------------------------------
(* The clock and the calendar *)

\* C1: from any normalized clock state, after every completed tick_time call
\* the clock state is normalized again, for any number of consecutive ticks.
C1_TickKeepsNormalized == pc = "harness" => Normalized(date)

\* A tick that rolled the clock over into the first day of another month.
C1_Witness ==
    /\ pc = "harness" /\ n > 0
    /\ date[4] = 1 /\ start[4] > 1 /\ date[5] # start[5]
    /\ date[1] = 0 /\ date[2] = 0 /\ date[3] = 0

\* The calendar date after the date of a clock state.
NextDate(d) ==
    IF d[4] < DaysInMonth(d[5], d[6]) THEN << d[4] + 1, d[5], d[6] >>
    ELSE IF d[5] < 12 THEN << 1, d[5] + 1, d[6] >>
    ELSE << 1, 1, d[6] + 1 >>

OneDayLater(d) == << d[1], d[2], d[3] >> \o NextDate(d)

\* The last date a 16-bit year can hold.
LastDate(d) == d[4] = 31 /\ d[5] = 12 /\ d[6] = 65535

C3_DaysInMonth ==
    /\ get_days_in_month(date) = DaysInMonth(date[5], date[6])
    /\ \A y \in {2000, 2024} : get_days_in_month(<< 0, 0, 0, 1, 2, y >>) = 29
    /\ \A y \in {1900, 2100} : get_days_in_month(<< 0, 0, 0, 1, 2, y >>) = 28

\* The clock is in February of a century year that is not a leap year.
C3_Witness ==
    /\ n > 0 /\ date[5] = 2 /\ date[6] \in {1900, 2100}
    /\ get_days_in_month(date) = 28

-----------------------------------------------------------------------------
(* The calendar text *)

DigitValue(c) == CHOOSE k \in 0..9 : Digit(k) = c

\* The number a decimal text denotes.
RECURSIVE ParseDec(_)
ParseDec(t) ==
    IF t = << >> THEN 0
    ELSE 10 * ParseDec(SubSeq(t, 1, Len(t) - 1)) + DigitValue(t[Len(t)])

Slashes(t) == { i \in 1..Len(t) : t[i] = "/" }
FirstSlash(t) == CHOOSE i \in Slashes(t) : \A j \in Slashes(t) : i <= j
LastSlash(t) == CHOOSE i \in Slashes(t) : \A j \in Slashes(t) : j <= i

\* The day and the month the text "D/M/Y" shows.
ShownDay(t) == ParseDec(SubSeq(t, 1, FirstSlash(t) - 1))
ShownMonth(t) == ParseDec(SubSeq(t, FirstSlash(t) + 1, LastSlash(t) - 1))

AtStartup == pc = "main" /\ n = 0 /\ wait_time = 0 /\ last_action = "IDLE"

\* C4, as stated: for every clock state reachable from the startup state the
\* calendar string of get_date_formatted shows a day in 1..days-in-month of the
\* shown month and a month in 1..12, and at startup it shows day 1 of month 1.
C4_ShownDate_AsStated ==
    pc # "panic" =>
        LET f == get_date_formatted(date).date IN
        /\ f.ok
        /\ ShownMonth(f.buf) \in 1..12
        /\ ShownDay(f.buf) \in 1..DaysInMonth(ShownMonth(f.buf), date[6])
        /\ AtStartup => ShownDay(f.buf) = 1 /\ ShownMonth(f.buf) = 1

-----------------------------------------------------------------------------
(* Startup *)

\* C5, as stated: every Preferences::default starts the clock at second 0,
\* minute 0, hour 0, day 1, month 1, year 2000, with temperature range (60, 80)
\* and humidity range (60, 70); checked on the library's Preferences.
C5_StartupEpoch_AsStated ==
    /\ start = << 0, 0, 0, 1, 1, 2000 >>
    /\ temperature = << 60, 80 >>
    /\ humidity = << 60, 70 >>

-----------------------------------------------------------------------------
(* Ranges *)

Ordered(p) == p[1] <= p[2]

Committed(p, q) ==
    IF p[1] > p[2]
    THEN q = << p[2], p[1] >> /\ Ordered(q) /\ { q[1], q[2] } = { p[1], p[2] }
    ELSE q = p

\* C7: the commit step of a temperature or humidity edit turns a pair with
\* low > high into (high, low), so that low <= high holds and the set of the two
\* values is preserved, and changes nothing in a pair with low <= high.
C7_CommitSwaps ==
    /\ pc = "committed_temperature" =>
          Committed(start[1], temperature) /\ humidity = start[2]
    /\ pc = "committed_humidity" =>
          Committed(start[2], humidity) /\ temperature = start[1]

\* A temperature pair with low > high was committed and came out swapped.
C7_Witness ==
    /\ pc = "committed_temperature"
    /\ start[1][1] > start[1][2]
    /\ temperature = << start[1][2], start[1][1] >>

-----------------------------------------------------------------------------
(* Sprinklers *)

HumidityOutOfRange == get_humidity(data) < humidity[1] \/ get_humidity(data) > humidity[2]

\* C8, as stated: after a Sensor action without smoke the sprinklers are on iff
\* the measured humidity is outside the humidity range or it is watering time.
C8_Sprinklers_AsStated ==
    (pc = "main" /\ last_action = "SENSOR") =>
        (sprinklers <=> (HumidityOutOfRange \/ is_watering_time(date, watering)))

\* (hour, minute) a at or before (hour, minute) b.
HourMinuteLeq(a, b) == a[1] < b[1] \/ (a[1] = b[1] /\ a[2] <= b[2])

\* The clock's (hour, minute) lies in the closed window [start, end].
InWindow(d, w) ==
    /\ w # None
    /\ HourMinuteLeq(<< w[2], w[1] >>, << d[3], d[2] >>)
    /\ HourMinuteLeq(<< d[3], d[2] >>, << w[4], w[3] >>)

\* C9, as stated: is_watering_time is true iff a window is configured and the
\* clock's (hour, minute) lies in the closed interval [start, end] in
\* hour-then-minute order; with window 07:30-08:00 true at 07:45, false at 08:01.
C9_WateringTime_AsStated ==
    pc = "returned" => (returned <=> InWindow(date, watering))

-----------------------------------------------------------------------------
(* Smoke *)

Running == pc \notin {"panic", "fault_on", "fault_off"}

\* C10, as stated, for the runs in which the firmware neither panics nor stops
\* in the sensor fault loop: if the smoke detector stays asserted, the alarm
\* latch is eventually entered, whatever the buttons and the edit sessions do.
C10_SmokeLatches_AsStated == []([](smoke_detector /\ Running) => <>(pc = "latch"))

-----------------------------------------------------------------------------
(* The smoke latch *)

\* A step of the firmware, as opposed to a change of the detector's level.
FirmwareStep == smoke_detector' = smoke_detector /\ vars' # vars

\* C11: while the smoke latch is active the sprinklers are on, the roof vent is
\* closed and the buzzer is on; each latch iteration advances the clock by one
\* second and touches nothing else; and control stays in the latch for as long
\* as the detector is asserted (no navigation, edit or sensor read happens).
C11_LatchHolds ==
    [][ /\ pc' = "latch" => (sprinklers' /\ ~roof_vent' /\ buzzer')
        /\ (pc = "latch" /\ pc' = "latch" /\ FirmwareStep) =>
              /\ date' = tick_time(date, overflow_checks).date
              /\ date' # date
              /\ n' = n + 1
              /\ UNCHANGED << temperature, humidity, watering, current_screen_index,
                              wait_time, button_cooldown, data, roof_open >>
        /\ (pc = "latch" /\ smoke_detector /\ FirmwareStep) =>
              /\ pc' \in {"latch", "panic"}
              /\ UNCHANGED << temperature, humidity, watering, current_screen_index,
                              wait_time, button_cooldown, data, roof_open >>
      ]_vars

\* The latch was entered with the vent open and has gone through an iteration.
C11_Witness ==
    /\ pc = "latch" /\ last_action = "LATCH" /\ smoke_detector
    /\ roof_open /\ ~roof_vent /\ sprinklers /\ buzzer

\* C12: when the smoke latch exits, the roof vent holds the state it had
\* immediately before the latch was entered and the buzzer and the sprinklers
\* are off, before the sensor read that follows.
C12_LatchRelease ==
    [][ /\ (pc # "latch" /\ pc' = "latch") => roof_open' = roof_vent
        /\ (pc = "latch" /\ pc' = "latch") => roof_open' = roof_open
        /\ (pc = "latch" /\ ~smoke_detector /\ FirmwareStep /\ pc' # "panic") =>
              LET X == latch_release(Tick(State)) IN
              /\ X.roof_vent = roof_open /\ ~X.buzzer /\ ~X.sprinklers
              /\ last_action' = "RELEASE"
              /\ pc' = "fault_on" => (roof_vent' = roof_open /\ ~sprinklers')
      ]_vars

\* The latch was left with the vent open before it, and the vent is open again
\* (the sensor could not be read, so nothing has moved the vent since).
C12_Witness ==
    /\ pc = "fault_on" /\ last_action = "RELEASE"
    /\ roof_open /\ roof_vent /\ ~sprinklers

-----------------------------------------------------------------------------
(* The scheduler *)

\* A pass of the main loop that did not panic.
PassStep == pc = "main" /\ FirmwareStep /\ pc' # "panic"

Sessions == {"temp", "hum", "date", "water"}

\* C13: when several buttons are asserted in the same scheduler pass, the
\* emitted action is that of the highest-priority one, Up over Down over Select;
\* Select is emitted only when neither Up nor Down is asserted.
C13_ButtonPriority ==
    [][ PassStep =>
          /\ sampled'[1] => last_action' = "UP"
          /\ (~sampled'[1] /\ sampled'[2]) => last_action' = "DOWN"
          /\ last_action' = "SELECT" <=> (~sampled'[1] /\ ~sampled'[2] /\ sampled'[3])
      ]_vars

\* A pass sampled Up and Select together and emitted Up.
C13_Witness ==
    /\ pc = "main" /\ last_action = "UP"
    /\ sampled = << TRUE, FALSE, TRUE >>

\* What a pass did, seen from outside.
Navigated == current_screen_index' # current_screen_index
EnteredEdit == pc' \in Sessions
SensorCycle ==
    \/ << data, buzzer, sprinklers, roof_vent, roof_open >>' #
          << data, buzzer, sprinklers, roof_vent, roof_open >>
    \/ pc' \in {"latch", "fault_on"}
Truth(b) == IF b THEN 1 ELSE 0

\* C14: each scheduler pass yields exactly one outcome among Up, Down, Select,
\* Sensor and Idle, and the main loop performs at most one of screen navigation,
\* an edit session, or a sensor/actuator cycle in that pass; navigation only on
\* Up or Down, an edit only on Select, a sensor cycle only on Sensor.
C14_OneActionPerPass ==
    [][ PassStep =>
          /\ last_action' \in {"UP", "DOWN", "SELECT", "SENSOR", "IDLE"}
          /\ Truth(Navigated) + Truth(EnteredEdit) + Truth(SensorCycle) <= 1
          /\ Navigated => last_action' \in {"UP", "DOWN"}
          /\ EnteredEdit => last_action' = "SELECT"
          /\ SensorCycle => last_action' = "SENSOR"
          /\ last_action' = "IDLE" =>
                UNCHANGED << pc, temperature, humidity, watering, current_screen_index >>
      ]_vars

\* A pass that took the Sensor action, read the sensor and did nothing else.
C14_Witness ==
    /\ pc = "main" /\ last_action = "SENSOR" /\ wait_time = 0
    /\ data \in Readings /\ current_screen_index = 4

-----------------------------------------------------------------------------
(* Navigation *)

\* The screen reached from screen i by the directions of seq (TRUE: Up), with
\* Up as (i + 1) mod 5 and Down as (i + 4) mod 5.
RECURSIVE Replay(_, _)
Replay(i, seq) ==
    IF seq = << >> THEN i
    ELSE Replay(IF Head(seq) THEN (i + 1) % 5 ELSE (i + 4) % 5, Tail(seq))

\* C15: a navigation action changes screen index i to (i + 1) mod 5 for Up and
\* to (i + 4) mod 5 for Down; the index stays in 0..4; Up followed by Down
\* restores the screen; five Ups, or five Downs, return to the starting screen.
C15_Navigation ==
    /\ current_screen_index \in 0..4
    /\ current_screen_index = Replay(start, returned)
    /\ returned = << TRUE, FALSE >> => current_screen_index = start
    /\ returned = << TRUE, TRUE, TRUE, TRUE, TRUE >> => current_screen_index = start
    /\ returned = << FALSE, FALSE, FALSE, FALSE, FALSE >> => current_screen_index = start

\* Five Ups from the Humidity screen, back on the Humidity screen.
C15_Witness ==
    /\ returned = << TRUE, TRUE, TRUE, TRUE, TRUE >>
    /\ start = 1 /\ current_screen_index = 1 /\ last_action = "UP"

-----------------------------------------------------------------------------
(* The watering window *)

\* Start at or before end, in hour-then-minute order.
WindowOrdered(w) == HourMinuteLeq(<< w[2], w[1] >>, << w[4], w[3] >>)

\* Windows between 07:00 and 08:30 in either order, 08:00-07:30 among them.
EditedWindows ==
    { << sm, sh, em, eh >> : sm \in {0, 30}, sh \in {7, 8}, em \in {0, 30}, eh \in {7, 8} }

\* C16: at every main-loop pass outside an edit session a configured watering
\* window has start <= end in hour-then-minute order, after any sequence of
\* watering edit sessions that end by Select; the legality check that ends such
\* a session puts any window in that order.
C16_WindowOrdered ==
    /\ (pc = "main" /\ watering # None) => WindowOrdered(watering)
    /\ \A w \in EditedWindows : WindowOrdered(check_watering_legality(w))

\* Back in the main loop from a watering edit session that set a window and
\* ended by Select (with the cooldown at zero a Select pass would have entered
\* a session, so this Select was the session's last sample).
C16_Witness ==
    /\ pc = "main" /\ current_screen_index = 4 /\ watering # None
    /\ last_action = "SELECT" /\ sampled = << FALSE, FALSE, TRUE >>
    /\ button_cooldown = 0

\* A Sample step of the watering edit session.
WaterSample == pc = "water" /\ FirmwareStep

\* C17, as stated: in a watering edit session a sample with Up and Down
\* asserted together ends the session at once and leaves the window absent.
C17_RemoveGesture_AsStated ==
    [][ (WaterSample /\ sampled'[1] /\ sampled'[2]) =>
          (pc' \notin Sessions /\ watering' = None) ]_vars

-----------------------------------------------------------------------------
(* The clock during an edit session *)

\* C20: while an edit loop runs, tick_time is called on every second 500 ms
\* sample: after k samples spent in one edit session exactly floor(k / 2)
\* calls have been made, across the successive fields of the session, and in
\* a session that does not edit the date the clock stands floor(k / 2)
\* seconds after the clock at the session's start.
C20_EditClock ==
    /\ n = returned \div 2
    /\ pc \in Sessions => (update_date <=> returned % 2 = 1)
    /\ current_screen_index # 3 =>
          date = tick_times(Done(start), returned \div 2, overflow_checks).date

\* Five samples into a session, on its third field, two seconds added.
C20_Witness ==
    /\ pc = "water" /\ index = 2 /\ returned = 5 /\ n = 2
    /\ start = << 59, 59, 23, 29, 2, 2024 >> /\ date = << 1, 0, 0, 1, 3, 2024 >>

-----------------------------------------------------------------------------
(* The sensor cycle *)

\* A step that went through get_bme_data with the mode set and came back to the
\* main loop: a Sensor action without smoke, or the release of the latch.
SensorRead ==
    /\ pc \in {"main", "latch"} /\ FirmwareStep
    /\ pc' = "main" /\ last_action' \in {"SENSOR", "RELEASE"}

\* C18, as stated: when a sensor read returns no data the previously stored
\* reading is retained, so the stored reading after a read is either what the
\* sensor delivered or the reading stored before.
C18_FailedReadRetains_AsStated ==
    [][ SensorRead => (data' \in Readings \/ data' = data) ]_vars

\* C19: after each Sensor action that reads the sensor, the roof vent is open
\* iff the measured temperature is below the low threshold or above the high
\* threshold, and closed iff low <= temperature <= high.
C19_VentDecision ==
    (pc = "main" /\ last_action \in {"SENSOR", "RELEASE"}) =>
        LET temp == get_temperature(data) IN
        /\ roof_vent <=> (temp < temperature[1] \/ temp > temperature[2])
        /\ ~roof_vent <=> (temperature[1] <= temp /\ temp <= temperature[2])

\* A read of exactly the high threshold leaves the vent closed.
C19_Witness ==
    /\ pc = "main" /\ last_action = "SENSOR" /\ wait_time = 0
    /\ get_temperature(data) = 80 /\ temperature = << 60, 80 >> /\ ~roof_vent

-----------------------------------------------------------------------------
(* The field steppers of the date edit *)

\* The least and the greatest value of the field edited by loop i of a clock d.
FieldMin(i) == IF i \in {0, 1} THEN 0 ELSE 1
FieldMax(i, d) ==
    CASE i = 0 -> 59 [] i = 1 -> 23 [] i = 2 -> get_days_in_month(d) [] OTHER -> 12

\* C21, as stated: the steppers of minute, hour, day and month wrap
\* inclusively (an increment at the field's maximum yields its minimum, a
\* decrement at its minimum yields its maximum), and one increment followed by
\* one decrement returns the original value, for every value the field can hold.
C21_SteppersWrap_AsStated ==
    /\ (Len(returned) = 1 /\ returned[1][1] \in 0..3) =>
          LET i == returned[1][1]
              up == returned[1][2] IN
          /\ (up /\ start[i + 2] = FieldMax(i, start)) => date[i + 2] = FieldMin(i)
          /\ (~up /\ start[i + 2] = FieldMin(i)) => date[i + 2] = FieldMax(i, start)
    /\ (Len(returned) = 2 /\ returned[1][1] \in 0..3 /\ returned[2][1] = returned[1][1]
          /\ returned[1][2] /\ ~returned[2][2]) => date = start

\* C30, as stated: during the day-editing step of a date edit, every Up or
\* Down sample leaves the day within 1..days-in-month of the current month
\* and year.
C30_DayInMonth_AsStated ==
    (Len(returned) >= 1 /\ returned[Len(returned)][1] = 2) =>
        date[4] \in 1..get_days_in_month(date)

-----------------------------------------------------------------------------
(* Select on the Pressure screen *)

\* C22: a Select action on the Pressure screen (index 2) starts no edit loop
\* and leaves the thresholds, the watering window, the clock fields and the
\* screen index unchanged; the clock moves in that pass only by the
\* scheduler's own tick, on a hundredth pass.
C22_PressureSelect ==
    [][ (PassStep /\ current_screen_index = 2 /\ last_action' = "SELECT") =>
          /\ pc' = "main"
          /\ UNCHANGED << temperature, humidity, watering, current_screen_index >>
          /\ date' = IF (wait_time + 1) % 100 = 0
                     THEN tick_time(date, overflow_checks).date ELSE date ]_vars

\* Back in the main loop after a Select on the Pressure screen with the
\* cooldown elapsed.
C22_Witness ==
    /\ pc = "main" /\ current_screen_index = 2 /\ last_action = "SELECT"
    /\ sampled = << FALSE, FALSE, TRUE >> /\ button_cooldown = 0

-----------------------------------------------------------------------------
(* The humidity edit *)

\* An Up or Down sample of the humidity edit loop.
HumiditySample == pc = "hum" /\ n' = n + 1

\* C23: after any sequence of humidity edit samples both humidity bounds stay
\* within 0..100: an Up sample at 100 and a Down sample at 0 leave the active
\* bound unchanged, and every other Up or Down sample changes it by exactly one
\* (and never the other bound).
C23_HumidityRange ==
    [][ HumiditySample =>
          LET a == IF editing_lower THEN humidity[1] ELSE humidity[2]
              b == IF editing_lower THEN humidity'[1] ELSE humidity'[2]
              up == last_action' = "UP" IN
          /\ humidity'[1] \in 0..100 /\ humidity'[2] \in 0..100
          /\ (up /\ a = 100) => b = a
          /\ (~up /\ a = 0) => b = a
          /\ (up /\ a < 100) => b = a + 1
          /\ (~up /\ a > 0) => b = a - 1
          /\ editing_lower => humidity'[2] = humidity[2]
          /\ ~editing_lower => humidity'[1] = humidity[1] ]_vars

\* An Up sample on an upper bound of 100, after the lower bound was stepped
\* down from 1 to 0.
C23_Witness ==
    /\ pc = "hum" /\ humidity = << 0, 100 >> /\ start[2] = << 1, 100 >>
    /\ ~editing_lower /\ last_action = "UP" /\ n = 2

-----------------------------------------------------------------------------
(* The countdown timer *)

\* C24: tick lowers the remaining time by one and saturates at zero, and
\* is_finished is true exactly when the remaining time is 0; hence after
\* set_time(n) the timer reports finished exactly from its n-th tick on, until
\* the next set_time.  The button cooldown of the main loop counts down from 50
\* and saturates in the same way.
C24_CountDown ==
    /\ returned.target_ms = (IF n < start THEN start - n ELSE 0)
    /\ is_finished(returned) <=> n >= start
    /\ button_cooldown \in 0..50

\* Two ticks after the timer given 3 ms ran out.
C24_Witness ==
    /\ pc = "harness" /\ start = 3 /\ n = 5 /\ is_finished(returned)
    /\ returned.target_ms = 0

-----------------------------------------------------------------------------
(* The scheduler's cooldowns *)

\* The button cooldown as the pass sees it, after tick_buttons.
TickedCooldown == tick_buttons(button_cooldown)

\* C25, as stated: whenever an Up, Down or Select action fires (a button
\* outcome with the cooldown elapsed), the button cooldown is reset to 50
\* passes, so that leaving an edit session with Select still asserted does not
\* enter a session again on the next pass.
C25_CooldownReset_AsStated ==
    [][ (PassStep /\ TickedCooldown = 0 /\ last_action' \in {"UP", "DOWN", "SELECT"}) =>
          button_cooldown' = 50 ]_vars

\* C26, as stated: in a pass where the button cooldown is still nonzero and
\* the sensor interval has elapsed, a Sensor action is produced even if a
\* button is asserted.
C26_SensorNotStarved_AsStated ==
    [][ (PassStep /\ TickedCooldown > 0 /\ wait_time + 1 >= 100) =>
          last_action' = "SENSOR" ]_vars

-----------------------------------------------------------------------------
(* The steps of the watering edit *)

\* The window (start minute, start hour, end minute, end hour) with one step
\* applied at visiting position i: start hour, start minute, end hour, end minute.
SteppedWindow(w, i, up) ==
    CASE i = 0 -> [w EXCEPT ![2] = IF up THEN (@ + 1) % 24 ELSE (@ + 23) % 24]
      [] i = 1 -> [w EXCEPT ![1] = IF up THEN (@ + 1) % 60 ELSE (@ + 59) % 60]
      [] i = 2 -> [w EXCEPT ![4] = IF up THEN (@ + 1) % 24 ELSE (@ + 23) % 24]
      [] OTHER -> [w EXCEPT ![3] = IF up THEN (@ + 1) % 60 ELSE (@ + 59) % 60]

\* A sample of the watering edit session with Up alone or Down alone.
WaterUpDown == WaterSample /\ sampled'[1] # sampled'[2] /\ pc' # "panic"

\* C28, as stated: in a watering edit session with a configured window, an Up
\* (Down) sample at visiting position 0, 1, 2, 3 adds (subtracts) one,
\* wrapping, to the stored start hour, start minute, end hour, end minute
\* respectively, and leaves the other three stored fields unchanged.
C28_WateringStep_AsStated ==
    [][ (WaterUpDown /\ watering # None) =>
          watering' = SteppedWindow(watering, index, sampled'[1]) ]_vars

\* C29, as stated: in a watering edit session entered with no schedule, the
\* first Up or Down sample sets the window to the default 00:00-01:00 and then
\* applies that sample's step to the field being edited.
C29_SeedThenStep_AsStated ==
    [][ (WaterUpDown /\ watering = None) =>
          watering' = SteppedWindow(set_default_watering_time, index, sampled'[1]) ]_vars

-----------------------------------------------------------------------------
(* The cadence of the clock *)

\* C27, as stated: in the main loop the clock is advanced by one second
\* exactly once per 100 consecutive scheduler passes, whatever the button
\* inputs are and whenever Sensor actions fire: after k passes tick_time has
\* been called floor(k / 100) times.
C27_ClockCadence_AsStated ==
    pc = "main" => n = returned \div 100

-----------------------------------------------------------------------------
(* The month and year loops of the date edit *)

\* A month step was taken, and since then only the month and year loops ran,
\* the loops that follow it in the session.
MonthChanged ==
    \E k \in 1..Len(returned) :
        /\ returned[k][1] = 3
        /\ \A j \in k..Len(returned) : returned[j][1] \in {3, 4}

\* C31, as stated: after a date edit session in which the month was changed,
\* day <= days-in-month(new month, year): a day that no longer fits the new
\* month is clamped down before the session ends.
C31_DayClamped_AsStated ==
    (pc = "harness" /\ MonthChanged) => date[4] <= get_days_in_month(date)

\* C32, as stated: in the year-editing step a Down sample at year 0 leaves the
\* year at 0, every other Down sample lowers it by one and every Up sample
\* raises it by exactly one; the year never wraps and the step never faults,
\* including at 65535.
C32_YearStep_AsStated ==
    (Len(returned) = 1 /\ returned[1][1] = 4) =>
        /\ pc # "panic"
        /\ date[6] = (IF returned[1][2] THEN start[6] + 1
                      ELSE IF start[6] = 0 THEN 0 ELSE start[6] - 1)

-----------------------------------------------------------------------------
(* How an edit session ends *)

\* A Sample step of an edit session.
SessionStep == pc \in Sessions /\ FirmwareStep

\* The number, from 0, of the last field of the session's screen.
LastField(p) == CASE p \in {"temp", "hum"} -> 1 [] p = "date" -> 4 [] OTHER -> 3

\* C33, as stated: a field-edit session ends only through Select samples taken
\* with neither Up nor Down asserted (the one on the last field ends it: two
\* for temperature or humidity, five for the date, four for watering) or, in
\* watering edit, through one sample with Up and Down asserted together; an Up
\* or Down sample alone never advances to the next field and never ends the
\* session.
C33_SessionEnds_AsStated ==
    [][ SessionStep =>
          LET up == sampled'[1]
              down == sampled'[2]
              selectOnly == sampled'[3] /\ ~up /\ ~down
              remove == pc = "water" /\ up /\ down IN
          /\ (pc' # pc) => (remove \/ (selectOnly /\ index = LastField(pc)))
          /\ (pc' = pc) => index' = (IF selectOnly THEN index + 1 ELSE index) ]_vars

\* The same, for the watering edit session alone.
C33_WateringSessionEnds ==
    [][ (SessionStep /\ pc = "water") =>
          LET up == sampled'[1]
              down == sampled'[2]
              selectOnly == sampled'[3] /\ ~up /\ ~down
              remove == up /\ down IN
          /\ (pc' # pc) <=> (remove \/ (selectOnly /\ index = 3))
          /\ (pc' = pc) => index' = (IF selectOnly THEN index + 1 ELSE index) ]_vars

-----------------------------------------------------------------------------
(* The two phases of a range edit *)

\* C34: in a temperature or humidity edit session, Up/Down samples taken
\* before the first Select sample change only the low bound, and Up/Down
\* samples taken between the first and the second Select sample change only
\* the high bound; the phase changes only at a Select sample, from low to high.
C34_RangePhases ==
    [][ (pc \in {"temp", "hum"} /\ vars' # vars) =>
          /\ (n' = n + 1 /\ editing_lower) =>
                (temperature'[2] = temperature[2] /\ humidity'[2] = humidity[2])
          /\ (n' = n + 1 /\ ~editing_lower) =>
                (temperature'[1] = temperature[1] /\ humidity'[1] = humidity[1])
          /\ (editing_lower' # editing_lower) =>
                (editing_lower /\ last_action' = "SELECT" /\ n' = n
                 /\ temperature' = temperature /\ humidity' = humidity) ]_vars

\* A Down sample after the first Select lowered the high bound of the
\* temperature range and left the low bound.
C34_Witness ==
    /\ pc = "temp" /\ ~editing_lower /\ last_action = "DOWN" /\ n = 1
    /\ start[1] = << 60, 80 >> /\ temperature = << 60, 79 >>

-----------------------------------------------------------------------------
(* The temperature edit *)

\* C38, as stated: in a temperature edit session each Up sample raises the
\* active bound by exactly one for every bound value below 255, mirroring the
\* Down sample that lowers it by one for every value above 0.
C38_TemperatureStep_AsStated ==
    [][ (pc = "temp" /\ n' = n + 1) =>
          LET a == IF editing_lower THEN temperature[1] ELSE temperature[2]
              b == IF editing_lower THEN temperature'[1] ELSE temperature'[2]
              up == last_action' = "UP" IN
          /\ (up /\ a < 255) => b = a + 1
          /\ (~up /\ a > 0) => b = a - 1 ]_vars

\* C37, as stated: a watering edit session entered with no window configured
\* and completed by Select samples only does not fault and leaves the window
\* absent.
C37_SelectOnlySession_AsStated ==
    [][ (WaterSample /\ watering = None /\ index = 3
         /\ sampled' = << FALSE, FALSE, TRUE >>) =>
          (pc' = "main" /\ watering' = None) ]_vars

-----------------------------------------------------------------------------
(* The capacity of the display buffers *)

\* C35, as stated: no formatted display string ever exceeds the capacity of
\* the buffer it is written into, in any reachable state and after any number
\* of redraws: the main-screen text fits at every redraw of the main loop, and
\* no sample of a temperature, humidity or date edit session faults in its
\* redraw (the clock is far from the end of the calendar, so that a redraw is
\* the only step of these sessions that can fault).
C35_BuffersFit_AsStated ==
    [][ /\ (pc = "main" /\ FirmwareStep /\ last_action' # "IDLE"
              /\ pc' \in {"main", "panic"}) => main_screen_text(State)'.ok
        /\ (pc \in {"temp", "hum", "date"} /\ FirmwareStep) => pc' # "panic" ]_vars

\* The same for the strings that have a buffer of their own: the clock string,
\* the calendar date string and the watering string.
C35_OwnBuffersFit ==
    /\ get_date_formatted(date).time.ok
    /\ get_date_formatted(date).date.ok
    /\ format_watering_time(watering).ok

-----------------------------------------------------------------------------
(* The sensor fault *)

InFault == pc \in {"fault_on", "fault_off"}

\* C36: if putting the sensor into its measurement mode fails during a Sensor
\* action, the controller enters a loop that never returns: from then on the
\* buzzer alternates on and off forever and no further scheduler pass, clock
\* tick, sensor read or vent/sprinkler decision occurs.
C36_FaultLoop ==
    /\ [][ /\ (~InFault /\ InFault') =>
                 (pc \in {"main", "latch"} /\ pc' = "fault_on" /\ buzzer'
                  /\ last_action' \in {"SENSOR", "RELEASE"} /\ data' = data)
           /\ InFault =>
                 /\ InFault' /\ pc' # pc /\ buzzer' = ~buzzer
                 /\ UNCHANGED << date, n, wait_time, button_cooldown, data, roof_vent,
                                 sprinklers, roof_open, temperature, humidity, watering,
                                 current_screen_index, last_action, sampled >> ]_vars
    /\ [](InFault => (buzzer <=> pc = "fault_on"))
    /\ [](pc = "fault_on" => <>(pc = "fault_off"))
    /\ [](pc = "fault_off" => <>(pc = "fault_on"))

\* The alarm loop in its silent phase, after a Sensor action whose mode set
\* failed.
C36_Witness ==
    pc = "fault_off" /\ ~buzzer /\ last_action = "SENSOR" /\ wait_time = 0

-----------------------------------------------------------------------------
(* The range of the pass counter *)

\* C39, as stated: the scheduler's pass counter wait_time never overflows its
\* 16-bit range: under every button input sequence, a button held asserted
\* included, the counter stays below 65535, no pass faults, and a clock tick
\* keeps firing once per 100 passes.
C39_WaitTimeBounded_AsStated ==
    /\ wait_time < 65535
    /\ pc # "panic"
    /\ n = returned \div 100

=============================================================================
